---- MODULE Spec2Model ----
(***************************************************************************)
(* Batch job ledger of the image-generation pipeline: job submission       *)
(* (BatchService.create_batch_job) and result reconciliation               *)
(* (BatchService.check_and_download_results and the procedures it calls),  *)
(* over the two ledger tables batch_jobs and batch_job_images.             *)
(*                                                                         *)
(* jobs and items hold the COMMITTED rows of the two tables.  Every        *)
(* assignment the code makes to a row is followed by session.commit()      *)
(* with no remote call in between, so each action below ends at a commit   *)
(* (or at a remote call) and the committed tables are all an observer      *)
(* can see.                                                                *)
(***************************************************************************)
EXTENDS Naturals, Sequences, FiniteSets, TLC

VARIABLES
    jobs,        \* table batch_jobs: sequence of rows, a row's id is its index
    items,       \* table batch_job_images: sequence of rows
    nextBatch,   \* number of batch keys (uuid4) drawn so far
    manifests,   \* batch keys whose local manifest file batch_request_<key>.jsonl exists
    pc,          \* position of the reconciliation pass
    queue,       \* jobs selected by the pass and not yet polled
    cur,         \* the job being reconciled and the remote state read for it
    payload,     \* the per-item responses of the current job's result
    idx,         \* index in payload of the response being handled
    has_image,   \* local has_image of the response being handled
    pushFailed,  \* some asset-store upload returned no handle for the current job
    errors,      \* result["errors"] of the job being reconciled
    result,      \* the StatusCheckResult the pass is filling
    drive,       \* rows of batch_job_images whose result file is in the store's folder
    ppc,         \* position of the publish handler
    pqueue,      \* images selected by the publish step and not yet handled
    calls,       \* gateway calls made by the current run of the publish handler
    lock,        \* the bot's stage locks, TRUE while held (followed in the
                 \* specifications of the handlers)
    commands,    \* the handler invocations in flight: stage, position, answer
    remote       \* the state the provider holds for each job, by job id
                 \* (followed in SpecLive)

vars == <<jobs, items, nextBatch, manifests, pc, queue, cur, payload, idx,
          has_image, pushFailed, errors, result, drive, ppc, pqueue, calls,
          lock, commands, remote>>

\* ------------------------------------------------------------------ bounds
MaxJobs == 2       \* rows of batch_jobs
MaxItems == 3      \* rows of batch_job_images
MaxLines == 2      \* per-item responses in one result payload
MaxSubmits == 3    \* batch keys drawn
MaxPublishItems == 1   \* rows of batch_job_images in runs of the publish stage
MaxLedgerItems == 1    \* rows of batch_job_images in runs of all the stages together
MaxCommands == 2       \* handler invocations in flight at once
MaxGenerationItems == 2    \* rows of batch_job_images in runs of the generation handler
MaxStatusItems == 1        \* rows of batch_job_images in runs of the status handler
MaxLiveItems == 1          \* rows of batch_job_images in runs with the provider's state

\* ------------------------------------------------------------ vocabulary
Null == "null"

RemoteStates ==
    {"JOB_STATE_UNSPECIFIED", "JOB_STATE_PENDING", "JOB_STATE_RUNNING",
     "JOB_STATE_SUCCEEDED", "JOB_STATE_FAILED", "JOB_STATE_CANCELLED",
     "JOB_STATE_PAUSED"}

TerminalRemote ==
    {"JOB_STATE_SUCCEEDED", "JOB_STATE_FAILED", "JOB_STATE_CANCELLED"}

TerminalStatus == {"SUCCEEDED", "FAILED", "CANCELLED"}

\* a default filter that selects finished jobs too
DefaultStatusesWithSucceeded == {"PENDING", "RUNNING", "SUCCEEDED"}

\* statuses = ["PENDING", "RUNNING"] when the caller gives none
DefaultStatuses == {"PENDING", "RUNNING"}

ErrorObjects == {"E1"}

\* str(error): the text recorded for an explicit per-item error object
StrOf(e) == "str(" \o e \o ")"

\* the fixed message texts, written here in ASCII
NoImageMessage == "image not generated"
DriveErrorMessage == "Google Drive upload error"
JobFailedMessage == "Batch job failed"
JobCancelledMessage == "Batch job cancelled"

UnknownFormatMessage == "unknown result format"

DriveFile == "drive-file-id"

\* str(e) of an exception a remote call or a decoder raises
ExceptionText == "str(exception)"

\* f"Ошибка скачивания: {error_msg}"
DownloadErrorMessage(error_msg) == "download error: " \o error_msg

\* task.page_url of a submitted task: a page of the site, or empty
PageUrl == "/products/page"
PageUrls == {"", PageUrl}

\* the stages of the bot that run under a lock of their own: generation_lock,
\* status_check_lock, publish_lock, parsing_lock
Stages == {"generation", "status", "publish", "parsing"}

\* a slot for a handler invocation, free
NoCommand == [stage |-> "none", pos |-> "none", sent |-> "none"]

\* ------------------------------------------------------------- submission
\* a request key that leaves out the index
RequestKeyNoIndex(batch_key, i) == <<batch_key, 0>>

\* request_key = f"{batch_key}-{i}"
RequestKey(batch_key, i) == <<batch_key, i>>

\* a response without "key", and a key no row of the ledger carries
NoKey == <<0, 0>>
UnknownKey == <<0, 1>>

\* the BatchJob row create_batch_job adds; n is len(tasks)
NewJob(batch_key, n) ==
    [status |-> "PENDING",
     completed_at |-> Null,
     error_message |-> Null,
     source_image_names |-> [i \in 1..n |-> RequestKey(batch_key, i - 1)]]

\* the BatchJobImage rows create_batch_job adds for the job with id job_id;
\* urls[i] is the page_url of task i, the other columns take their defaults
NewItems(job_id, batch_key, n, urls) ==
    [i \in 1..n |->
        [batch_job_id |-> job_id,
         request_key |-> RequestKey(batch_key, i - 1),
         page_url |-> urls[i],
         status |-> "PENDING",
         result_file |-> Null,
         error_message |-> Null,
         alt |-> Null,
         title |-> Null,
         description |-> Null,
         image_cms_id |-> Null,
         published |-> FALSE]]

\* the ways a call of create_batch_job ends, in the order the code reaches them
Outcomes ==
    {"missing_path", "upload_raises", "manifest_upload_raises",
     "null_manifest_handle", "null_image_handle", "create_raises",
     "null_job_name", "ok"}

\* outcomes that need at least one task
NeedsTask == {"missing_path", "upload_raises", "null_image_handle"}

\* the call raises before a batch key is drawn
FailsBeforeKey(outcome) == outcome = "missing_path"

\* the call raises after the manifest file is written and before it is unlinked
FailsHoldingManifest(outcome) ==
    outcome \in {"manifest_upload_raises", "null_manifest_handle",
                 "null_image_handle", "create_raises"}

\* the null job name noticed only after the rows are persisted
FailsBeforePersistLateNameCheck(outcome) ==
    \/ FailsBeforeKey(outcome)
    \/ outcome = "upload_raises"
    \/ FailsHoldingManifest(outcome)

\* the call raises before the session block that persists the rows
FailsBeforePersist(outcome) ==
    \/ FailsBeforeKey(outcome)
    \/ outcome = "upload_raises"
    \/ FailsHoldingManifest(outcome)
    \/ outcome = "null_job_name"

\* create_batch_job(tasks) with n = len(tasks) and urls the tasks' page_url;
\* the caller says what becomes of the bot's state and of the provider's
CreateBatchJobFor(n, urls, outcome) ==
    /\ outcome \in NeedsTask => n > 0
    /\ Len(items) + n <= MaxItems
    /\ IF FailsBeforeKey(outcome)
       THEN UNCHANGED <<jobs, items, nextBatch, manifests>>
       ELSE /\ nextBatch < MaxSubmits
            /\ nextBatch' = nextBatch + 1
            /\ manifests' = IF FailsHoldingManifest(outcome)
                            THEN manifests \cup {nextBatch + 1}
                            ELSE manifests
            /\ IF FailsBeforePersist(outcome)
               THEN UNCHANGED <<jobs, items>>
               ELSE /\ Len(jobs) < MaxJobs
                    /\ jobs' = Append(jobs, NewJob(nextBatch + 1, n))
                    /\ items' = items \o NewItems(Len(jobs) + 1, nextBatch + 1, n, urls)
    /\ UNCHANGED <<pc, queue, cur, payload, idx, has_image, pushFailed>>
    /\ UNCHANGED <<errors, result, drive, ppc, pqueue, calls>>

\* create_batch_job for tasks that all carry a page_url
CreateBatchJob(n, outcome) ==
    /\ CreateBatchJobFor(n, [i \in 1..n |-> PageUrl], outcome)
    /\ UNCHANGED <<lock, commands, remote>>

\* a call of create_batch_job that returns normally
Submit == \E n \in 0..MaxItems : CreateBatchJob(n, "ok")

\* a call of create_batch_job, whatever its outcome
SubmitAny == \E n \in 0..MaxItems, outcome \in Outcomes : CreateBatchJob(n, outcome)

\* ---------------------------------------------------------- reconciliation
\* MapState with a branch that stores the remote state PAUSED
MapStatePaused(old, state) ==
    CASE state = "JOB_STATE_SUCCEEDED" -> "SUCCEEDED"
      [] state = "JOB_STATE_FAILED" -> "FAILED"
      [] state = "JOB_STATE_CANCELLED" -> "CANCELLED"
      [] state = "JOB_STATE_RUNNING" -> "RUNNING"
      [] state = "JOB_STATE_PAUSED" -> "PAUSED"
      [] OTHER -> old

\* MapState without its first branch
MapStateNoSucceeded(old, state) ==
    CASE state = "JOB_STATE_FAILED" -> "FAILED"
      [] state = "JOB_STATE_CANCELLED" -> "CANCELLED"
      [] state = "JOB_STATE_RUNNING" -> "RUNNING"
      [] OTHER -> old

\* the ledger status _download_batch_results writes for a remote state
MapState(old, state) ==
    CASE state = "JOB_STATE_SUCCEEDED" -> "SUCCEEDED"
      [] state = "JOB_STATE_FAILED" -> "FAILED"
      [] state = "JOB_STATE_CANCELLED" -> "CANCELLED"
      [] state = "JOB_STATE_RUNNING" -> "RUNNING"
      [] OTHER -> old

\* one text for both states
JobErrorMessageSame(state) == JobFailedMessage

\* the fixed text recorded on a Job whose remote state is FAILED or CANCELLED
JobErrorMessage(state) ==
    IF state = "JOB_STATE_FAILED" THEN JobFailedMessage ELSE JobCancelledMessage

\* session.query(BatchJob).filter(BatchJob.status.in_(statuses)).all()
RECURSIVE SelectJobs(_, _)
SelectJobs(statuses, j) ==
    IF j > Len(jobs) THEN <<>>
    ELSE (IF jobs[j].status \in statuses THEN <<j>> ELSE <<>>)
         \o SelectJobs(statuses, j + 1)

\* the rows of batch_job_images with batch_job_id = j
ItemsOf(j) == {i \in 1..Len(items) : items[i].batch_job_id = j}

\* images_by_key.get(key): the row of job j the dict keeps for key, 0 for None
ImagesByKey(j, key) ==
    LET rows == {i \in ItemsOf(j) : items[i].request_key = key}
    IN IF rows = {} THEN 0 ELSE CHOOSE i \in rows : \A k \in rows : k <= i

\* one per-item response: its key, whether its parts hold an image ("bad": an
\* image payload base64 cannot decode), its error object, and whether the line
\* is JSON at all (file encoding only)
ItemLines(j) ==
    {[key |-> items[i].request_key, img |-> g, err |-> e, json |-> TRUE] :
        i \in ItemsOf(j), g \in {"none", "image", "bad"},
        e \in {"absent"} \cup ErrorObjects}

SkippedLines ==
    {[key |-> NoKey, img |-> "none", err |-> "absent", json |-> TRUE],
     [key |-> UnknownKey, img |-> "image", err |-> "E1", json |-> TRUE]}

UnparsableLine == [key |-> NoKey, img |-> "none", err |-> "absent", json |-> FALSE]

Payloads(lines) == UNION {[1..k -> lines] : k \in 0..MaxLines}

FilePayloads(j) == Payloads(ItemLines(j) \cup SkippedLines \cup {UnparsableLine})

\* dest.inlined_responses is taken only when it is not empty
InlinePayloads(j) == Payloads(ItemLines(j) \cup SkippedLines) \ {<<>>}

NoCur == [job |-> 0, state |-> "NONE", enc |-> "none", raised |-> FALSE]

\* file encoding, the image part of a response: upload, then the row's write
FileImagePart(row, line, push) ==
    IF line.img # "image" THEN row
    ELSE IF push
         THEN [row EXCEPT !.result_file = DriveFile, !.status = "SUCCEEDED"]
         ELSE [row EXCEPT !.error_message = DriveErrorMessage, !.status = "FAILED"]

\* the no-image write after the error write, and without its test for an error
FileErrorPartNoImageLast(row, line, hasImage) ==
    LET r1 == IF line.err # "absent"
              THEN [row EXCEPT !.error_message = StrOf(line.err), !.status = "FAILED"]
              ELSE row
    IN IF ~hasImage
       THEN [r1 EXCEPT !.error_message = NoImageMessage, !.status = "FAILED"]
       ELSE r1

\* file encoding, what follows the image part: the no-image and the error write
FileErrorPart(row, line, hasImage) ==
    LET r1 == IF ~hasImage /\ line.err = "absent"
              THEN [row EXCEPT !.error_message = NoImageMessage, !.status = "FAILED"]
              ELSE row
    IN IF line.err # "absent"
       THEN [r1 EXCEPT !.error_message = StrOf(line.err), !.status = "FAILED"]
       ELSE r1

\* inline encoding, the image part of a response
InlineImagePart(row, line, push) ==
    IF line.img # "image" THEN row
    ELSE IF push
         THEN [row EXCEPT !.result_file = DriveFile, !.status = "SUCCEEDED"]
         ELSE [row EXCEPT !.error_message = DriveErrorMessage, !.status = "FAILED"]

\* inline encoding, what follows the image part: the error write
InlineErrorPart(row, line, hasImage) ==
    IF line.err # "absent"
    THEN [row EXCEPT !.error_message = StrOf(line.err), !.status = "FAILED"]
    ELSE row

\* what the image part of a response appends to result["errors"]
ImageErrors(line, r, push) ==
    IF line.img = "image" /\ r # 0 /\ ~push THEN <<DriveErrorMessage>> ELSE <<>>

\* file encoding: what the rest of a line appends to result["errors"]
FileErrors(line, hasImage) ==
    (IF ~hasImage /\ line.err = "absent" THEN <<NoImageMessage>> ELSE <<>>)
    \o (IF line.err # "absent" THEN <<StrOf(line.err)>> ELSE <<>>)

\* inline encoding: what the rest of a response appends to result["errors"]
InlineErrors(line) ==
    IF line.err # "absent" THEN <<StrOf(line.err)>> ELSE <<>>

\* StatusCheckResult() as the pass fills it: the jobs selected and polled, the
\* jobs counted as failed, and the error grouping
NoResult ==
    [total_jobs |-> 0, processed_jobs |-> <<>>, jobs_failed |-> 0,
     errors_grouped |-> [m \in {} |-> 0]]

\* errors_grouped[error_msg] += 1, or = 1 for a message not yet in the dict
Group(grouped, error_msg) ==
    IF error_msg \in DOMAIN grouped
    THEN [grouped EXCEPT ![error_msg] = @ + 1]
    ELSE [m \in DOMAIN grouped \cup {error_msg} |->
            IF m = error_msg THEN 1 ELSE grouped[m]]

\* the loop over job_result["errors"]
RECURSIVE GroupAll(_, _)
GroupAll(grouped, errs) ==
    IF errs = <<>> THEN grouped
    ELSE GroupAll(Group(grouped, Head(errs)), Tail(errs))

\* a per-job tally that leaves jobs_failed alone when the call raised
TallyNoFailedCount(res, c, errs) ==
    IF c.raised
    THEN [res EXCEPT !.errors_grouped = Group(@, ExceptionText)]
    ELSE [res EXCEPT
            !.jobs_failed = IF c.state = "JOB_STATE_FAILED" THEN @ + 1 ELSE @,
            !.errors_grouped = GroupAll(@, errs)]

\* the body of the loop over the jobs after _download_batch_results has
\* returned job_result (state c.state, errors errs) or has raised (c.raised)
Tally(res, c, errs) ==
    IF c.raised
    THEN [res EXCEPT !.jobs_failed = @ + 1,
                     !.errors_grouped = Group(@, ExceptionText)]
    ELSE [res EXCEPT
            !.jobs_failed = IF c.state = "JOB_STATE_FAILED" THEN @ + 1 ELSE @,
            !.errors_grouped = GroupAll(@, errs)]

PassLocal == <<queue, cur, payload, idx, has_image, pushFailed>>
Ledger == <<jobs, items>>
Submission == <<nextBatch, manifests>>
Report == <<errors, result>>
Publishing == <<ppc, pqueue, calls>>
Outside == <<lock, commands, remote>>

\* check_and_download_results: select the jobs of the pass
StartPass ==
    /\ pc = "idle"
    /\ queue' = SelectJobs(DefaultStatuses, 1)
    /\ result' = [NoResult EXCEPT !.total_jobs = Len(queue')]
    /\ pc' = "poll"
    /\ UNCHANGED <<Ledger, Submission, Outside, cur, payload, idx, has_image, pushFailed>>
    /\ UNCHANGED <<errors, drive, Publishing>>

\* _download_batch_results for the next job: batches.get raises
PollRaises ==
    /\ pc = "poll"
    /\ queue # <<>>
    /\ LET j == Head(queue) IN
       /\ queue' = Tail(queue)
       /\ cur' = [NoCur EXCEPT !.job = j, !.raised = TRUE]
       /\ pc' = "tally"
       /\ result' = [result EXCEPT !.processed_jobs = Append(@, j)]
    /\ UNCHANGED <<Ledger, Submission, Outside, payload, idx, has_image, pushFailed>>
    /\ UNCHANGED <<errors, drive, Publishing>>

\* _download_batch_results for the next job up to its first commit: batches.get
\* answers state, the status write
PollAnswers(state) ==
    /\ pc = "poll"
    /\ queue # <<>>
    /\ LET j == Head(queue) IN
       /\ queue' = Tail(queue)
       /\ jobs' = [jobs EXCEPT ![j].status = MapState(@, state)]
       /\ cur' = [NoCur EXCEPT !.job = j, !.state = state]
       /\ pc' = IF state \in TerminalRemote THEN "completed" ELSE "tally"
       /\ result' = [result EXCEPT !.processed_jobs = Append(@, j)]
    /\ UNCHANGED <<items, Submission, Outside, payload, idx, has_image, pushFailed>>
    /\ UNCHANGED <<errors, drive, Publishing>>

\* the call for the next job, whatever the provider does
PollJob ==
    \/ PollRaises
    \/ \E state \in RemoteStates : PollAnswers(state)

\* remote state FAILED or CANCELLED: the error message write and its commit
RecordJobError ==
    /\ pc = "completed"
    /\ cur.state \in {"JOB_STATE_FAILED", "JOB_STATE_CANCELLED"}
    /\ jobs' = [jobs EXCEPT ![cur.job].error_message = JobErrorMessage(cur.state)]
    /\ pc' = "tally"
    /\ UNCHANGED <<items, Submission, Outside, PassLocal, Report, drive, Publishing>>

\* remote state SUCCEEDED: job.dest and the encoding of the result.  job.dest
\* came with the answer of batches.get; it is read here, after the status commit.
LocateResults ==
    /\ pc = "completed"
    /\ cur.state = "JOB_STATE_SUCCEEDED"
    /\ \/ /\ cur' = [cur EXCEPT !.enc = "absent"]
          /\ pc' = "tally"
          /\ UNCHANGED <<payload, idx, errors>>
       \/ /\ cur' = [cur EXCEPT !.enc = "unknown"]
          /\ errors' = Append(errors, UnknownFormatMessage)
          /\ pc' = "tally"
          /\ UNCHANGED <<payload, idx>>
       \/ /\ cur' = [cur EXCEPT !.enc = "file"]
          /\ pc' = "download"
          /\ UNCHANGED <<payload, idx, errors>>
       \/ /\ cur' = [cur EXCEPT !.enc = "inline"]
          /\ \E p \in InlinePayloads(cur.job) : payload' = p
          /\ idx' = 1
          /\ pc' = "inline"
          /\ UNCHANGED errors
    /\ UNCHANGED <<Ledger, Submission, Outside, queue, has_image, pushFailed>>
    /\ UNCHANGED <<result, drive, Publishing>>

\* _download_and_process_file: files.download and the split into lines
DownloadFile ==
    /\ pc = "download"
    /\ \/ /\ pc' = "tally"
          /\ errors' = Append(errors, DownloadErrorMessage(ExceptionText))
          /\ UNCHANGED <<payload, idx>>
       \/ \E p \in FilePayloads(cur.job) :
          /\ payload' = p
          /\ idx' = 1
          /\ pc' = IF p = <<>> THEN "tally" ELSE "lines"
          /\ UNCHANGED errors
    /\ UNCHANGED <<Ledger, Submission, Outside, queue, cur, has_image, pushFailed>>
    /\ UNCHANGED <<result, drive, Publishing>>

\* the loop moves to the next response, or ends
Advance(more) ==
    /\ idx' = idx + 1
    /\ pc' = IF idx + 1 > Len(payload) THEN "tally" ELSE more
    /\ has_image' = FALSE

\* file encoding: one line up to the end of its image part
FileLine ==
    /\ pc = "lines"
    /\ LET line == payload[idx]
           r == ImagesByKey(cur.job, line.key)
       IN IF ~line.json \/ (line.key # NoKey /\ r # 0 /\ line.img = "bad")
          THEN \* json.loads or b64decode raises: caught outside the loop
               /\ pc' = "tally"
               /\ errors' = Append(errors, DownloadErrorMessage(ExceptionText))
               /\ UNCHANGED <<items, idx, has_image, pushFailed, drive>>
          ELSE IF line.key = NoKey
          THEN /\ Advance("lines")
               /\ UNCHANGED <<items, pushFailed, errors, drive>>
          ELSE IF r # 0 /\ line.img = "image"
          THEN \E push \in BOOLEAN :
               /\ items' = [items EXCEPT ![r] = FileImagePart(@, line, push)]
               /\ drive' = IF push THEN drive \cup {r} ELSE drive
               /\ errors' = errors \o ImageErrors(line, r, push)
               /\ has_image' = push
               /\ pushFailed' = (pushFailed \/ ~push)
               /\ pc' = "lineTail"
               /\ UNCHANGED idx
          ELSE /\ pc' = "lineTail"
               /\ UNCHANGED <<items, idx, has_image, pushFailed, errors, drive>>
    /\ UNCHANGED <<jobs, Submission, Outside, queue, cur, payload, result, Publishing>>

\* file encoding: the rest of the line
FileLineTail ==
    /\ pc = "lineTail"
    /\ LET line == payload[idx]
           r == ImagesByKey(cur.job, line.key)
       IN items' = IF r = 0 THEN items
                   ELSE [items EXCEPT ![r] = FileErrorPart(@, line, has_image)]
    /\ errors' = errors \o FileErrors(payload[idx], has_image)
    /\ Advance("lines")
    /\ UNCHANGED <<jobs, Submission, Outside, queue, cur, payload, pushFailed>>
    /\ UNCHANGED <<result, drive, Publishing>>

\* inline encoding: one response up to the end of its image part
InlineResponse ==
    /\ pc = "inline"
    /\ LET line == payload[idx]
           r == ImagesByKey(cur.job, line.key)
       IN IF line.key # NoKey /\ r # 0 /\ line.img = "bad"
          THEN \* b64decode raises: caught by the loop over the jobs
               /\ pc' = "tally"
               /\ cur' = [cur EXCEPT !.raised = TRUE]
               /\ UNCHANGED <<items, idx, has_image, pushFailed, errors, drive>>
          ELSE IF line.key = NoKey
          THEN /\ Advance("inline")
               /\ UNCHANGED <<items, cur, pushFailed, errors, drive>>
          ELSE IF r # 0 /\ line.img = "image"
          THEN \E push \in BOOLEAN :
               /\ items' = [items EXCEPT ![r] = InlineImagePart(@, line, push)]
               /\ drive' = IF push THEN drive \cup {r} ELSE drive
               /\ errors' = errors \o ImageErrors(line, r, push)
               /\ has_image' = push
               /\ pushFailed' = (pushFailed \/ ~push)
               /\ pc' = "inlineTail"
               /\ UNCHANGED <<idx, cur>>
          ELSE /\ pc' = "inlineTail"
               /\ UNCHANGED <<items, idx, cur, has_image, pushFailed, errors, drive>>
    /\ UNCHANGED <<jobs, Submission, Outside, queue, payload, result, Publishing>>

\* inline encoding: the rest of the response
InlineResponseTail ==
    /\ pc = "inlineTail"
    /\ LET line == payload[idx]
           r == ImagesByKey(cur.job, line.key)
       IN items' = IF r = 0 THEN items
                   ELSE [items EXCEPT ![r] = InlineErrorPart(@, line, has_image)]
    /\ errors' = errors \o InlineErrors(payload[idx])
    /\ Advance("inline")
    /\ UNCHANGED <<jobs, Submission, Outside, queue, cur, payload, pushFailed>>
    /\ UNCHANGED <<result, drive, Publishing>>

\* back in the loop over the jobs: the job's result is counted, the next job is taken
FinishJob ==
    /\ pc = "tally"
    /\ result' = Tally(result, cur, errors)
    /\ errors' = <<>>
    /\ pc' = "poll"
    /\ cur' = NoCur
    /\ payload' = <<>>
    /\ idx' = 0
    /\ has_image' = FALSE
    /\ pushFailed' = FALSE
    /\ UNCHANGED <<Ledger, Submission, Outside, queue, drive, Publishing>>

\* the loop over the jobs is over: check_and_download_results returns its result
PassReturns ==
    /\ pc = "poll"
    /\ queue = <<>>
    /\ pc' = "idle"
    /\ result' = NoResult
    /\ UNCHANGED <<Ledger, Submission, PassLocal, errors, drive, Publishing>>

\* the pass ends in the middle: only the committed rows remain
PassDies ==
    /\ pc # "idle"
    /\ pc' = "idle"
    /\ queue' = <<>>
    /\ cur' = NoCur
    /\ payload' = <<>>
    /\ idx' = 0
    /\ has_image' = FALSE
    /\ pushFailed' = FALSE
    /\ errors' = <<>>
    /\ result' = NoResult
    /\ UNCHANGED <<Ledger, Submission, drive, Publishing>>

\* the pass returns to a caller that does nothing more
EndPass == PassReturns /\ UNCHANGED Outside

\* the process dies in the middle of a pass
Crash == PassDies /\ UNCHANGED Outside

\* --------------------------------------------- direct update of one Item
\* Python truth of an optional string: None and "" are false
Truthy(v) == v \notin {Null, ""}

\* session.query(BatchJobImage).filter(request_key == key).first(): 0 for None
FirstByKey(key) ==
    LET rows == {i \in 1..Len(items) : items[i].request_key = key}
    IN IF rows = {} THEN 0 ELSE CHOOSE i \in rows : \A k \in rows : i <= k

\* update_image_result that sets the status before it looks at result_file
ImageResultStatusOnly(row, result_file, error_message) ==
    LET r1 == IF Truthy(result_file) THEN [row EXCEPT !.status = "SUCCEEDED"] ELSE row
    IN IF Truthy(error_message)
       THEN [r1 EXCEPT !.error_message = error_message, !.status = "FAILED"]
       ELSE r1

\* the row update_image_result leaves
ImageResult(row, result_file, error_message) ==
    LET r1 == IF Truthy(result_file)
              THEN [row EXCEPT !.result_file = result_file, !.status = "SUCCEEDED"]
              ELSE row
    IN IF Truthy(error_message)
       THEN [r1 EXCEPT !.error_message = error_message, !.status = "FAILED"]
       ELSE r1

\* update_image_result(request_key, result_file, error_message); staged tells
\* whether the file the caller names is in the store's folder
UpdateImageResult(request_key, result_file, error_message, staged) ==
    /\ LET r == FirstByKey(request_key) IN
       IF r = 0
       THEN UNCHANGED <<items, drive>>
       ELSE /\ items' = [items EXCEPT ![r] = ImageResult(@, result_file, error_message)]
            /\ drive' = IF ~Truthy(result_file) THEN drive
                        ELSE IF staged THEN drive \cup {r} ELSE drive \ {r}
    /\ UNCHANGED <<jobs, Submission, Outside, pc, PassLocal, Report, Publishing>>

UpdateAnyImageResult ==
    \E i \in 0..Len(items), result_file \in {Null, "", DriveFile},
       error_message \in {Null, StrOf("E1")} :
        \E staged \in (IF Truthy(result_file) THEN BOOLEAN ELSE {FALSE}) :
            UpdateImageResult(IF i = 0 THEN UnknownKey ELSE items[i].request_key,
                              result_file, error_message, staged)

\* ------------------------------------------------------- the asset store
\* somebody removes a staged result from the store's folder
RemoveDriveFile ==
    \E i \in drive :
        /\ drive' = drive \ {i}
        /\ UNCHANGED <<Ledger, Submission, Outside, pc, PassLocal, Report, Publishing>>

\* check_file_exists: the file is in the folder and the call does not fail
CheckFileExists(i, faults) == i \in drive /\ i \notin faults

\* download_file: bytes, or None when the file is gone or the call fails
DownloadFileOk(i, faults) == i \in drive /\ i \notin faults

\* ------------------------------------------------------ the publish stage
\* the values of BatchJobImage.status
ItemStatuses == {"PENDING", "SUCCEEDED", "FAILED", "DELETED"}

\* the selection without its test of the status
ReadyAnyStatus(row) ==
    /\ row.result_file # Null
    /\ row.published = FALSE

\* status == "SUCCEEDED", result_file IS NOT NULL, published == False
Ready(row) ==
    /\ row.status = "SUCCEEDED"
    /\ row.result_file # Null
    /\ row.published = FALSE

ReadySet == {i \in 1..Len(items) : Ready(items[i])}

\* the query of the publish step: Ready, title IS NOT NULL, description IS NOT NULL
StrictReady(row) ==
    /\ Ready(row)
    /\ row.title # Null
    /\ row.description # Null

\* the elements of a set of rows as the list the query returns, in table order
RECURSIVE ListOf(_, _)
ListOf(rows, i) ==
    IF i > Len(items) THEN <<>>
    ELSE (IF i \in rows THEN <<i>> ELSE <<>>) \o ListOf(rows, i + 1)

\* one element of the "images" list the description model returns: a JSON
\* object whose keys may be missing and whose values may be null
Descriptions ==
    {[alt |-> "alt text", title |-> "title text", caption |-> "caption text"],
     [alt |-> Null, title |-> "title text", caption |-> "caption text"],
     [title |-> ""]}

\* desc.get(key, default)
Get(desc, key, default) == IF key \in DOMAIN desc THEN desc[key] ELSE default

\* the three caption writes for one image
Captioned(row, desc) ==
    [row EXCEPT !.alt = Get(desc, "alt", ""),
                !.title = Get(desc, "title", ""),
                !.description = Get(desc, "caption", "")]

\* str(upload_result.image_id)
CmsId == "str(image_id)"

NoCalls == {}

\* the handler takes publish_lock and starts
PublishStart ==
    /\ ppc = "idle"
    /\ ppc' = "sync"
    /\ calls' = NoCalls
    /\ UNCHANGED <<Ledger, Submission, Outside, pc, PassLocal, Report, drive, pqueue>>

\* _check_deleted_files: the rows it leaves when the rows in missing are those
\* for which check_file_exists answered False
Marked(table, missing) ==
    [i \in 1..Len(table) |->
        IF Ready(table[i]) /\ Truthy(table[i].result_file) /\ i \in missing
        THEN [table[i] EXCEPT !.status = "DELETED"]
        ELSE table[i]]

\* sync_files(check_deleted=True): the deleted-file check and its one commit
CheckDeletedFiles ==
    /\ ppc = "sync"
    /\ \E faults \in SUBSET (1..Len(items)) :
        items' = Marked(items, {i \in 1..Len(items) : ~CheckFileExists(i, faults)})
    /\ ppc' = "caption"
    /\ UNCHANGED <<jobs, Submission, Outside, pc, PassLocal, Report, drive, pqueue, calls>>

\* step 1 for one gateway response: the images of the model without title or
\* description whose file is found and downloaded (photos), the call of
\* generate_descriptions, the caption writes and their commit
CaptionImages ==
    /\ ppc = "caption"
    /\ \E photos \in SUBSET {i \in ReadySet \cap drive :
                               ~(Truthy(items[i].title) /\ Truthy(items[i].description))} :
        /\ photos # {}
        /\ \/ UNCHANGED items      \* generate_descriptions raises
           \/ \E k \in 0..Cardinality(photos) :
              \E descs \in [1..k -> Descriptions] :
                LET image_ids == ListOf(photos, 1)
                IN items' = [i \in 1..Len(items) |->
                               IF \E n \in 1..k : image_ids[n] = i
                               THEN Captioned(items[i],
                                      descs[CHOOSE n \in 1..k : image_ids[n] = i])
                               ELSE items[i]]
    /\ UNCHANGED <<jobs, Submission, Outside, pc, PassLocal, Report, drive, Publishing>>

\* step 2: the strict selection; the handler returns when it is empty
SelectForPublish ==
    /\ ppc = "caption"
    /\ LET images == ListOf({i \in 1..Len(items) : StrictReady(items[i])}, 1)
       IN /\ pqueue' = images
          /\ ppc' = IF images = <<>> THEN "idle" ELSE "publish"
    /\ UNCHANGED <<Ledger, Submission, Outside, pc, PassLocal, Report, drive, calls>>

\* the loop takes the next image
NextImage ==
    /\ pqueue' = Tail(pqueue)
    /\ ppc' = "publish"

\* an upload whose identifier is not stored
UploadedNotStored(row) == row

\* img.image_cms_id = str(image_id)
Uploaded(row) == [row EXCEPT !.image_cms_id = CmsId]

\* the upload for an image that carries an identifier already
NeedsUploadAlways(row) == TRUE

\* "if img.image_cms_id: ... else:" the image still has to be uploaded
NeedsUpload(row) == ~Truthy(row.image_cms_id)

\* one image of the loop up to the commit of image_cms_id
PublishImage ==
    /\ ppc = "publish"
    /\ pqueue # <<>>
    /\ LET i == Head(pqueue) IN
       IF ~NeedsUpload(items[i])
       THEN /\ ppc' = "gallery"
            /\ UNCHANGED <<items, pqueue, calls>>
       ELSE IF ~Truthy(items[i].result_file)
       THEN /\ NextImage
            /\ UNCHANGED <<items, calls>>
       ELSE \E faults \in SUBSET {i} :
            IF ~DownloadFileOk(i, faults)
            THEN /\ NextImage
                 /\ UNCHANGED <<items, calls>>
            ELSE /\ calls' = calls \cup {<<"upload_image", i>>}
                 /\ \/ /\ NextImage     \* upload_image raises
                       /\ UNCHANGED items
                    \/ /\ items' = [items EXCEPT ![i] = Uploaded(@)]
                       /\ ppc' = "gallery"
                       /\ UNCHANGED pqueue
    /\ UNCHANGED <<jobs, Submission, Outside, pc, PassLocal, Report, drive>>

\* the same image from the test of page_url on: add_gallery_image, the commit
\* of published, delete_file
PublishGallery ==
    /\ ppc = "gallery"
    /\ LET i == Head(pqueue) IN
       IF ~Truthy(items[i].page_url)
       THEN UNCHANGED <<items, calls, drive>>
       ELSE /\ calls' = calls \cup {<<"add_gallery_image", i>>}
            /\ \/ UNCHANGED <<items, drive>>    \* the call raises, or success is false
               \/ /\ items' = [items EXCEPT ![i].published = TRUE]
                  /\ \/ drive' = drive \ {i}
                     \/ drive' = drive           \* delete_file fails
    /\ NextImage
    /\ UNCHANGED <<jobs, Submission, Outside, pc, PassLocal, Report>>

\* the loop is over: the handler reports and releases the lock
PublishEnd ==
    /\ ppc = "publish"
    /\ pqueue = <<>>
    /\ ppc' = "idle"
    /\ calls' = NoCalls
    /\ UNCHANGED <<Ledger, Submission, Outside, pc, PassLocal, Report, drive, pqueue>>

\* an exception that reaches the handler's own except, or the process dies
PublishAbort ==
    /\ ppc # "idle"
    /\ ppc' = "idle"
    /\ pqueue' = <<>>
    /\ calls' = NoCalls
    /\ UNCHANGED <<Ledger, Submission, Outside, pc, PassLocal, Report, drive>>


\* ------------------------------------------------------ overall statistics
\* the number of rows of a table whose status is status
CountStatus(table, status) ==
    Cardinality({k \in 1..Len(table) : table[k].status = status})

\* the error messages get_overall_statistics groups: those of the FAILED Items
\* that carry one, in table order
FailedMessages ==
    LET failed == SelectSeq(items, LAMBDA row :
                      row.status = "FAILED" /\ Truthy(row.error_message))
    IN [k \in 1..Len(failed) |-> failed[k].error_message]

\* get_overall_statistics(): the StatusCheckResult it returns for the ledger
GetOverallStatistics ==
    [total_jobs |-> Len(jobs),
     jobs_pending |-> CountStatus(jobs, "PENDING"),
     jobs_running |-> CountStatus(jobs, "RUNNING"),
     jobs_succeeded |-> CountStatus(jobs, "SUCCEEDED"),
     jobs_failed |-> CountStatus(jobs, "FAILED"),
     jobs_cancelled |-> CountStatus(jobs, "CANCELLED"),
     total_images |-> Len(items),
     images_succeeded |-> CountStatus(items, "SUCCEEDED"),
     images_failed |-> CountStatus(items, "FAILED"),
     images_pending |-> Cardinality({k \in 1..Len(items) :
                            items[k].status \notin {"SUCCEEDED", "FAILED"}}),
     errors_grouped |-> GroupAll(NoResult.errors_grouped, FailedMessages)]


\* ------------------------------------------------- status check of one Job
\* datetime.now(timezone.utc)
Now == "now"

\* job_info.state.name: the name of the member of the provider's JobState, which
\* is the text of the remote state itself
StateName(state) == state

\* check_job_status(job_name) for the job with id j; state is job_info.state,
\* Null for None.  (batches.get raising, or a name no row carries, writes
\* nothing and is no step.)
CheckJobStatus(j, state) ==
    /\ state # Null
    /\ jobs' = [jobs EXCEPT
                  ![j].status = StateName(state),
                  ![j].completed_at =
                      IF StateName(state) \in {"SUCCEEDED", "FAILED", "CANCELLED"}
                      THEN Now ELSE @]
    /\ UNCHANGED <<items, Submission, Outside, pc, PassLocal, Report, drive, Publishing>>

CheckAnyJobStatus ==
    \E j \in 1..Len(jobs), state \in RemoteStates \cup {Null} : CheckJobStatus(j, state)

\* get_pending_jobs(): the ids of the rows it returns
GetPendingJobs == SelectJobs({"PENDING", "RUNNING"}, 1)


\* ---------------------------------------------------- the bot's handlers
\* Lock.locked(), and the lock table after "async with" takes or gives back a lock
Locked(stage) == lock[stage]
Acquired(stage) == [lock EXCEPT ![stage] = TRUE]
Released(stage) == [lock EXCEPT ![stage] = FALSE]

\* a handler that never answers "already running"
BusyNever(locked) == FALSE

\* "if generation_lock.locked(): await message.answer(...); return", the same
\* test in every handler
Busy(locked) == locked

\* where a handler is when it has entered its "async with"
First(stage) ==
    CASE stage = "generation" -> "gate"
      [] stage = "status" -> "pass"
      [] stage = "publish" -> "run"
      [] stage = "parsing" -> "run"

\* the invocation is inside the critical section of its stage
Inside(c) == c.pos \notin {"none", "waiting"}

\* the slot a new update gets
FreeSlots == {h \in 1..MaxCommands : commands[h].pos = "none"}
FreeSlot == CHOOSE h \in FreeSlots : \A k \in FreeSlots : h <= k

\* a handler from its lock test to the entry of "async with <stage>_lock":
\* no await lies between the test and the entry
Enter(stage) ==
    /\ FreeSlots # {}
    /\ LET h == FreeSlot IN
       IF Busy(Locked(stage))
       THEN /\ commands' = [commands EXCEPT
                              ![h] = [stage |-> stage, pos |-> "none", sent |-> "busy"]]
            /\ UNCHANGED lock
       ELSE IF Locked(stage)
       THEN \* "async with" on a held lock: the coroutine waits for it
            /\ commands' = [commands EXCEPT
                              ![h] = [stage |-> stage, pos |-> "waiting", sent |-> "none"]]
            /\ UNCHANGED lock
       ELSE /\ lock' = Acquired(stage)
            /\ commands' = [commands EXCEPT
                              ![h] = [stage |-> stage, pos |-> First(stage),
                                      sent |-> "started"]]
    /\ UNCHANGED <<Ledger, Submission, remote, pc, PassLocal, Report, drive, Publishing>>

\* the end of "async with": the handler has sent answer; the lock goes to a
\* coroutine that waits for it, or is free
Exit(h, answer) ==
    LET stage == commands[h].stage
        waiters == {w \in 1..MaxCommands :
                       commands[w].stage = stage /\ commands[w].pos = "waiting"}
    IN IF waiters = {}
       THEN /\ lock' = Released(stage)
            /\ commands' = [commands EXCEPT ![h].pos = "none", ![h].sent = answer]
       ELSE LET w == CHOOSE w \in waiters : TRUE
            IN /\ lock' = lock
               /\ commands' = [commands EXCEPT
                                 ![h].pos = "none", ![h].sent = answer,
                                 ![w].pos = First(stage), ![w].sent = "started"]

HandleGeneration == Enter("generation")
HandleCheckStatus == Enter("status")
HandlePublishImages == Enter("publish")
HandleUpdate == Enter("parsing")

\* the body of a handler runs to its end, by return or through its own except
BodyEnds ==
    \E h \in 1..MaxCommands :
        /\ Inside(commands[h])
        /\ Exit(h, "done")
        /\ UNCHANGED <<Ledger, Submission, remote, pc, PassLocal, Report, drive, Publishing>>


\* a handler that submits whatever the ledger holds
HasPendingNever(pending_jobs) == FALSE

\* "if pending_jobs:" the handler names the unfinished jobs and returns
HasPending(pending_jobs) == pending_jobs # <<>>

Others == <<Ledger, Submission, remote, pc, PassLocal, Report, drive, Publishing>>

\* handle_generation from the entry of the lock to the test of get_pending_jobs()
GenerationGate ==
    \E h \in 1..MaxCommands :
        /\ commands[h].stage = "generation"
        /\ commands[h].pos = "gate"
        /\ IF HasPending(GetPendingJobs)
           THEN Exit(h, "pending_jobs")
           ELSE /\ commands' = [commands EXCEPT ![h].pos = "tasks"]
                /\ UNCHANGED lock
        /\ UNCHANGED Others

\* handle_generation from the read of the sheet on: no task is left and the
\* handler returns, or create_batch_job(tasks) is called and returns or raises
GenerationSubmit ==
    \E h \in 1..MaxCommands :
        /\ commands[h].stage = "generation"
        /\ commands[h].pos = "tasks"
        /\ \/ /\ Exit(h, "no_tasks")
              /\ UNCHANGED Others
           \/ \E n \in 1..MaxGenerationItems, outcome \in Outcomes :
                 /\ Len(items) + n <= MaxGenerationItems
                 /\ CreateBatchJobFor(n, [i \in 1..n |-> PageUrl], outcome)
                 /\ Exit(h, IF outcome = "ok" THEN "created" ELSE "error")
                 /\ UNCHANGED remote

\* an exception before create_batch_job reaches the handler's except
GenerationFails ==
    \E h \in 1..MaxCommands :
        /\ commands[h].stage = "generation"
        /\ commands[h].pos \in {"gate", "tasks"}
        /\ Exit(h, "error")
        /\ UNCHANGED Others


\* the fields of the dataclass StatusCheckResult
StatusCheckResultFields ==
    {"total_jobs", "jobs_pending", "jobs_running", "jobs_succeeded", "jobs_failed",
     "jobs_cancelled", "total_images", "images_succeeded", "images_failed",
     "images_pending", "errors_grouped", "processed_jobs"}

\* the attributes of the pass's result that the handler reads before it formats
CurrentAttributes ==
    {"current_images_succeeded", "current_images_failed", "errors_grouped"}

\* reading an attribute an object does not have raises AttributeError
ReadRaises(fields, names) == ~(names \subseteq fields)

\* the status handler is waiting for check_and_download_results in the executor
PassRunning ==
    \E h \in 1..MaxCommands :
        commands[h].stage = "status" /\ commands[h].pos = "pass"

\* check_and_download_results returns to the handler
StatusReturn ==
    \E h \in 1..MaxCommands :
        /\ commands[h].stage = "status"
        /\ commands[h].pos = "pass"
        /\ PassReturns
        /\ commands' = [commands EXCEPT ![h].pos = "stats"]
        /\ UNCHANGED <<lock, remote>>

\* check_and_download_results raises: the handler's except answers
StatusRaises ==
    \E h \in 1..MaxCommands :
        /\ commands[h].stage = "status"
        /\ commands[h].pos = "pass"
        /\ PassDies
        /\ Exit(h, "error")
        /\ UNCHANGED remote

\* get_overall_statistics in the executor: it returns, or raises
StatusStats ==
    \E h \in 1..MaxCommands :
        /\ commands[h].stage = "status"
        /\ commands[h].pos = "stats"
        /\ \/ /\ commands' = [commands EXCEPT ![h].pos = "format"]
              /\ UNCHANGED lock
           \/ Exit(h, "error")
        /\ UNCHANGED Others

\* the handler copies the counts of the pass into the statistics, formats and
\* answers; an exception on the way reaches its except
StatusFormat ==
    \E h \in 1..MaxCommands :
        /\ commands[h].stage = "status"
        /\ commands[h].pos = "format"
        /\ Exit(h, IF ReadRaises(StatusCheckResultFields, CurrentAttributes)
                   THEN "error" ELSE "summary")
        /\ UNCHANGED Others


\* ------------------------------------------------- the provider's job state
\* create_batch_job returns normally: the provider holds the new job, in its queue
SubmitRemote ==
    \E n \in 0..MaxLiveItems :
        /\ Len(items) + n <= MaxLiveItems
        /\ CreateBatchJobFor(n, [i \in 1..n |-> PageUrl], "ok")
        /\ remote' = Append(remote, "JOB_STATE_PENDING")
        /\ UNCHANGED <<lock, commands>>

\* the provider moves a job that has not ended to another state; a job that
\* has ended keeps its state
RemoteAdvance ==
    \E j \in 1..Len(remote), state \in RemoteStates :
        /\ remote[j] \notin TerminalRemote
        /\ state # remote[j]
        /\ remote' = [remote EXCEPT ![j] = state]
        /\ UNCHANGED <<Ledger, Submission, lock, commands, pc, PassLocal, Report>>
        /\ UNCHANGED <<drive, Publishing>>

\* batches.get answers with the state the provider holds for job j
PollOk(j) ==
    /\ queue # <<>>
    /\ Head(queue) = j
    /\ PollAnswers(remote[j])

\* the call for the next job of the pass: it raises, or the provider answers
PollRemote ==
    \/ PollRaises
    \/ \E j \in 1..Len(jobs) : PollOk(j)

\* a step of a reconciliation pass, from its start to its return
PassStep ==
    \/ StartPass
    \/ PollRemote
    \/ RecordJobError
    \/ LocateResults
    \/ DownloadFile
    \/ FileLine
    \/ FileLineTail
    \/ InlineResponse
    \/ InlineResponseTail
    \/ FinishJob
    \/ EndPass

Init ==
    /\ jobs = <<>>
    /\ items = <<>>
    /\ nextBatch = 0
    /\ manifests = {}
    /\ pc = "idle"
    /\ queue = <<>>
    /\ cur = NoCur
    /\ payload = <<>>
    /\ idx = 0
    /\ has_image = FALSE
    /\ pushFailed = FALSE
    /\ errors = <<>>
    /\ result = NoResult
    /\ drive = {}
    /\ ppc = "idle"
    /\ pqueue = <<>>
    /\ calls = {}
    /\ lock = [s \in Stages |-> FALSE]
    /\ commands = [h \in 1..MaxCommands |-> NoCommand]
    /\ remote = <<>>

Next ==
    \/ Submit
    \/ StartPass
    \/ PollJob
    \/ RecordJobError
    \/ LocateResults
    \/ DownloadFile
    \/ FileLine
    \/ FileLineTail
    \/ InlineResponse
    \/ InlineResponseTail
    \/ FinishJob
    \/ EndPass
    \/ Crash

\* Reconciliation passes over the jobs that successful submissions create.  A
\* failing submission writes no row (see SpecSubmit) and reads nothing a pass
\* writes, so it is left to SpecSubmit.
Spec == Init /\ [][Next]_vars

\* Submissions alone, with every outcome of the call.
NextSubmit == SubmitAny

SpecSubmit == Init /\ [][NextSubmit]_vars

\* a successful submission that leaves at most limit Items in the ledger
SubmitUpTo(limit) ==
    \E n \in 1..limit :
        /\ Len(items) + n <= limit
        /\ CreateBatchJob(n, "ok")

\* the same for tasks with or without page_url
SubmitTasks(limit) ==
    \E n \in 1..limit : \E urls \in [1..n -> PageUrls] :
        /\ Len(items) + n <= limit
        /\ CreateBatchJobFor(n, urls, "ok")
        /\ UNCHANGED Outside

NextPublish ==
    \/ SubmitUpTo(MaxPublishItems)
    \/ UpdateAnyImageResult
    \/ RemoveDriveFile
    \/ PublishStart
    \/ CheckDeletedFiles
    \/ CaptionImages
    \/ SelectForPublish
    \/ PublishImage
    \/ PublishGallery
    \/ PublishEnd
    \/ PublishAbort

\* The publish stage over Items that submissions create and update_image_result
\* fills, with results disappearing from the asset store.
SpecPublish == Init /\ [][NextPublish]_vars

NextLedger ==
    \/ SubmitTasks(MaxLedgerItems)
    \/ StartPass
    \/ PollJob
    \/ RecordJobError
    \/ LocateResults
    \/ DownloadFile
    \/ FileLine
    \/ FileLineTail
    \/ InlineResponse
    \/ InlineResponseTail
    \/ FinishJob
    \/ EndPass
    \/ Crash
    \/ UpdateAnyImageResult
    \/ RemoveDriveFile
    \/ PublishStart
    \/ CheckDeletedFiles
    \/ CaptionImages
    \/ SelectForPublish
    \/ PublishImage
    \/ PublishGallery
    \/ PublishEnd
    \/ PublishAbort

\* Every operation that writes the ledger, interleaved: submission,
\* reconciliation, update_image_result, the deleted-file check and publishing.
SpecLedger == Init /\ [][NextLedger]_vars


NextCheck ==
    \/ Submit
    \/ CheckAnyJobStatus

\* Submissions and calls of check_job_status.
SpecCheck == Init /\ [][NextCheck]_vars


NextLocks ==
    \/ HandleGeneration
    \/ HandleCheckStatus
    \/ HandlePublishImages
    \/ HandleUpdate
    \/ BodyEnds

\* The lock protocol of the four handlers with updates arriving at any time.
\* What the bodies do to the ledger is in the other specifications; no body
\* touches a lock.
SpecLocks == Init /\ [][NextLocks]_vars


NextGeneration ==
    \/ HandleGeneration
    \/ GenerationGate
    \/ GenerationSubmit
    \/ GenerationFails
    \/ StartPass
    \/ PollJob
    \/ RecordJobError
    \/ LocateResults
    \/ DownloadFile
    \/ FileLine
    \/ FileLineTail
    \/ InlineResponse
    \/ InlineResponseTail
    \/ FinishJob
    \/ EndPass
    \/ Crash

\* Jobs submitted through the generation handler only, with reconciliation
\* passes running beside it.
SpecGeneration == Init /\ [][NextGeneration]_vars


NextStatus ==
    \/ SubmitUpTo(MaxStatusItems)
    \/ HandleCheckStatus
    \/ PassRunning /\ StartPass
    \/ PassRunning /\ PollJob
    \/ PassRunning /\ RecordJobError
    \/ PassRunning /\ LocateResults
    \/ PassRunning /\ DownloadFile
    \/ PassRunning /\ FileLine
    \/ PassRunning /\ FileLineTail
    \/ PassRunning /\ InlineResponse
    \/ PassRunning /\ InlineResponseTail
    \/ PassRunning /\ FinishJob
    \/ StatusReturn
    \/ StatusRaises
    \/ StatusStats
    \/ StatusFormat

\* The status handler: the pass runs for it, then the statistics, then the answer.
SpecStatus == Init /\ [][NextStatus]_vars


NextLive ==
    \/ SubmitRemote
    \/ RemoteAdvance
    \/ StartPass
    \/ PollRemote
    \/ RecordJobError
    \/ LocateResults
    \/ DownloadFile
    \/ FileLine
    \/ FileLineTail
    \/ InlineResponse
    \/ InlineResponseTail
    \/ FinishJob
    \/ EndPass

\* Reconciliation against the state the provider holds.  The process stays up:
\* a pass that has started goes on to its return and passes keep being started
\* (WF of PassStep), and batches.get for a job does not raise for ever (SF of
\* PollOk).
SpecLive ==
    /\ Init
    /\ [][NextLive]_vars
    /\ WF_vars(PassStep)
    /\ \A j \in 1..MaxJobs : SF_vars(PollOk(j))

\* ------------------------------------------------------------------ claims
\* the ledger status the reconciliation contract assigns to a terminal remote state
ExpectedStatus(state) ==
    CASE state = "JOB_STATE_SUCCEEDED" -> "SUCCEEDED"
      [] state = "JOB_STATE_FAILED" -> "FAILED"
      [] state = "JOB_STATE_CANCELLED" -> "CANCELLED"

\* positions of a pass after the status commit of a job whose remote state is terminal
AfterStatusCommit ==
    {"completed", "download", "lines", "lineTail", "inline", "inlineTail"}

\* the rows of job j, in table order
RowsOf(table, j) == SelectSeq(table, LAMBDA row : row.batch_job_id = j)

\* C1: in every reconciliation of a Job the status mapped from the remote state
\* is committed before the result is fetched and before any Item of the Job is
\* written, so no committed state has an Item SUCCEEDED under a Job still
\* PENDING, and a pass that dies after the commit leaves the Job at the new status.
C1_StatusCommittedFirst ==
    [][/\ pc' \in AfterStatusCommit =>
            jobs'[cur'.job].status = ExpectedStatus(cur'.state)
       /\ \A i \in 1..Len(items') :
            items'[i].status = "SUCCEEDED" =>
                jobs'[items'[i].batch_job_id].status # "PENDING"
       /\ (pc \in AfterStatusCommit /\ pc' = "idle") =>
            jobs'[cur.job].status = ExpectedStatus(cur.state)
       /\ \A j \in 1..Len(jobs) :
            (cur.job = j /\ RowsOf(items', j) # RowsOf(items, j)) =>
                jobs[j].status = "SUCCEEDED"]_vars

C1_Witness ==
    /\ pc \in {"lineTail", "inlineTail"}
    /\ jobs[cur.job].status = "SUCCEEDED"
    /\ \E i \in ItemsOf(cur.job) : items[i].status = "SUCCEEDED"
    /\ \E i \in ItemsOf(cur.job) : items[i].status = "PENDING"

\* C2: in every committed ledger state a Job's completed_at is set if and only
\* if its status is terminal (SUCCEEDED, FAILED or CANCELLED).
C2_CompletedIffTerminal ==
    \A j \in 1..Len(jobs) :
        (jobs[j].completed_at # Null) <=> (jobs[j].status \in TerminalStatus)

\* a Job status may stay, or move forward along PENDING -> RUNNING -> terminal
Forward(old, new) ==
    \/ new = old
    \/ old = "PENDING" /\ new \in {"RUNNING"} \cup TerminalStatus
    \/ old = "RUNNING" /\ new \in TerminalStatus

\* C3: under passes with the default status filter and any remote state
\* reports, a Job's ledger status only moves forward: it never leaves a
\* terminal status and never returns from RUNNING to PENDING.
C3_StatusMonotonic ==
    [][\A j \in 1..Len(jobs) : Forward(jobs[j].status, jobs'[j].status)]_vars

C3_Witness ==
    /\ pc = "tally"
    /\ cur.state = "JOB_STATE_PENDING"
    /\ jobs[cur.job].status = "RUNNING"
    /\ \E j \in 1..Len(jobs) : jobs[j].status \in TerminalStatus

\* C4: a call of create_batch_job with N tasks that returns normally adds
\* exactly one Job, PENDING, and exactly N Items, with pairwise distinct request
\* keys and all referencing the new Job, in one commit: no committed state
\* holds a Job without all its Items.
C4_OneJobAndItsItems ==
    [][/\ (jobs' # jobs \/ items' # items) =>
            LET j == Len(jobs) + 1
                n == Len(jobs'[j].source_image_names)
                new == Len(items) + 1 .. Len(items) + n
            IN /\ Len(jobs') = j
               /\ SubSeq(jobs', 1, Len(jobs)) = jobs
               /\ jobs'[j].status = "PENDING"
               /\ Len(items') = Len(items) + n
               /\ SubSeq(items', 1, Len(items)) = items
               /\ \A i \in new : items'[i].batch_job_id = j
               /\ \A i, k \in new :
                    i # k => items'[i].request_key # items'[k].request_key
       /\ \A j \in 1..Len(jobs') :
            Len(RowsOf(items', j)) = Len(jobs'[j].source_image_names)]_vars

C4_Witness ==
    /\ Len(jobs) = 2
    /\ Len(RowsOf(items, 1)) = 2
    /\ Len(RowsOf(items, 2)) = 1

\* C5: whenever create_batch_job fails (missing source path, null handle of an
\* uploaded image or of the manifest, null job name, or a remote call that
\* raises) the ledger holds no Job row and no Item row created by that call.
C5_FailedSubmissionWritesNothing ==
    [][(\E n \in 0..MaxItems, outcome \in Outcomes \ {"ok"} :
            CreateBatchJob(n, outcome))
       => UNCHANGED <<jobs, items>>]_vars

C5_Witness ==
    /\ Len(jobs) = 1
    /\ manifests # {}
    /\ nextBatch > Len(jobs) + Cardinality(manifests)

\* the Item row a whole response leaves, under each encoding
FileItemAfter(row, line, push) ==
    FileErrorPart(FileImagePart(row, line, push), line, line.img = "image" /\ push)

InlineItemAfter(row, line, push) ==
    InlineErrorPart(InlineImagePart(row, line, push), line, line.img = "image" /\ push)

\* C6: for the same per-item response content a file-encoded and an
\* inline-encoded result leave the Item in the same ledger state (here with the
\* store push succeeding); a response with neither image nor error marks the
\* Item FAILED with the "no image" message under both encodings.
C6_SameUnderBothEncodings ==
    pc \in {"lines", "inline"} =>
        LET line == payload[idx]
            r == ImagesByKey(cur.job, line.key)
        IN (line.json /\ r # 0 /\ line.img # "bad") =>
            /\ FileItemAfter(items[r], line, TRUE) = InlineItemAfter(items[r], line, TRUE)
            /\ (line.img = "none" /\ line.err = "absent") =>
                 LET after == IF pc = "lines"
                              THEN FileItemAfter(items[r], line, TRUE)
                              ELSE InlineItemAfter(items[r], line, TRUE)
                 IN after.status = "FAILED" /\ after.error_message = NoImageMessage

\* C7: within the result of one SUCCEEDED Job a failure while handling one
\* item (unparsable line, undecodable image) does not prevent the items after
\* it in the payload from being recorded: each later item whose response
\* carries an image or an error ends the pass SUCCEEDED or FAILED.
C7_LaterItemsRecorded ==
    (pc = "tally" /\ cur.enc \in {"file", "inline"}
        /\ idx >= 1 /\ idx <= Len(payload)) =>
        \A i \in idx + 1 .. Len(payload) :
            LET line == payload[i]
                r == ImagesByKey(cur.job, line.key)
            IN (line.json /\ r # 0 /\ line.key # payload[idx].key
                    /\ (line.img = "image" \/ line.err # "absent"))
                => items[r].status \in {"SUCCEEDED", "FAILED"}

\* a file result of two lines, an image for one Item and an error for another
\* Item of the current Job, with a the index of the image line
ImageAndErrorLines(a, b) ==
    /\ Len(payload) = 2
    /\ {a, b} = {1, 2}
    /\ payload[a].json /\ payload[a].img = "image" /\ payload[a].err = "absent"
    /\ payload[b].json /\ payload[b].img = "none" /\ payload[b].err # "absent"
    /\ payload[a].key # payload[b].key
    /\ ImagesByKey(cur.job, payload[a].key) # 0
    /\ ImagesByKey(cur.job, payload[b].key) # 0

\* C8: reconciling a SUCCEEDED Job whose file-encoded result has one line with
\* an image and one line with an error object, the store push succeeding, ends
\* with one Item SUCCEEDED with a result_file and the other FAILED with the
\* error text, whichever line comes first.
C8_ImageAndErrorLine ==
    \A a, b \in {1, 2} :
        (pc = "tally" /\ cur.enc = "file" /\ idx = Len(payload) + 1
            /\ ~pushFailed /\ ImageAndErrorLines(a, b)) =>
            LET ok == items[ImagesByKey(cur.job, payload[a].key)]
                ko == items[ImagesByKey(cur.job, payload[b].key)]
            IN /\ ok.status = "SUCCEEDED"
               /\ ok.result_file # Null
               /\ ko.status = "FAILED"
               /\ ko.error_message = StrOf(payload[b].err)
               /\ Cardinality({i \in ItemsOf(cur.job) :
                                  items[i].status = "SUCCEEDED"}) = 1

C8_Witness ==
    /\ pc = "tally" /\ cur.enc = "file" /\ idx = Len(payload) + 1
    /\ ~pushFailed
    /\ ImageAndErrorLines(2, 1)
    /\ Cardinality(ItemsOf(cur.job)) = 2

\* C9: when reconciliation observes the remote state FAILED or CANCELLED for a
\* Job it records a fixed non-null error_message on the Job and leaves every
\* field of every Item of that Job unchanged.
C9_JobErrorLeavesItems ==
    [][/\ cur'.state \in {"JOB_STATE_FAILED", "JOB_STATE_CANCELLED"} =>
            RowsOf(items', cur'.job) = RowsOf(items, cur'.job)
       /\ (pc' = "tally" /\ cur'.state = "JOB_STATE_FAILED") =>
            jobs'[cur'.job].error_message = JobFailedMessage
       /\ (pc' = "tally" /\ cur'.state = "JOB_STATE_CANCELLED") =>
            jobs'[cur'.job].error_message = JobCancelledMessage
       /\ JobFailedMessage # Null /\ JobCancelledMessage # Null]_vars

C9_Witness ==
    /\ pc = "tally"
    /\ cur.state = "JOB_STATE_CANCELLED"
    /\ jobs[cur.job].error_message = JobCancelledMessage
    /\ Cardinality(ItemsOf(cur.job)) = 2
    /\ \A i \in ItemsOf(cur.job) : items[i].status = "PENDING"

\* C10: a pass over a Job that is PENDING in the ledger and whose remote state
\* is PENDING or another non-terminal state changes no field of any Item; it
\* writes at most the Job's status (RUNNING, for the remote state RUNNING), so
\* repeating the pass yields the same ledger state.
C10_NonTerminalPollIdempotent ==
    [][(pc = "poll" /\ pc' = "tally" /\ ~cur'.raised
            /\ cur'.state \notin TerminalRemote
            /\ jobs[cur'.job].status \in {"PENDING", "RUNNING"}) =>
         /\ items' = items
         /\ jobs' = [jobs EXCEPT ![cur'.job].status =
                        IF cur'.state = "JOB_STATE_RUNNING" THEN "RUNNING" ELSE @]]_vars

C10_Witness ==
    /\ pc = "tally"
    /\ cur.state = "JOB_STATE_PENDING"
    /\ jobs[cur.job].status = "PENDING"
    /\ Cardinality(ItemsOf(cur.job)) = 2
    /\ \A i \in ItemsOf(cur.job) : items[i].status = "PENDING"

\* the count errors_grouped holds for a message, 0 for a message not in it
CountOf(grouped, error_msg) ==
    IF error_msg \in DOMAIN grouped THEN grouped[error_msg] ELSE 0

C12_UnrecognizedResultOnJob ==
    [][(pc = "completed" /\ pc' = "tally" /\ cur'.enc \in {"absent", "unknown"}) =>
         /\ jobs'[cur.job].error_message # Null
         /\ items' = items]_vars

\* C13: an Item whose response holds an image for which the asset store
\* returns no handle ends the reconciliation of its Job FAILED with the
\* store-error message, under the file encoding and under the inline encoding.
C13_StoreErrorRecorded ==
    (pc = "tally" /\ cur.enc \in {"file", "inline"} /\ ~cur.raised
        /\ Len(payload) = 1 /\ idx = 2 /\ pushFailed
        /\ payload[1].img = "image" /\ payload[1].err = "absent") =>
        LET r == ImagesByKey(cur.job, payload[1].key)
        IN r # 0 =>
            /\ items[r].status = "FAILED"
            /\ items[r].error_message = DriveErrorMessage

\* C15: no committed ledger state, the states between the commits of one
\* reconciliation included, has a Job FAILED or CANCELLED with a null
\* error_message.
C15_JobStatusWithError ==
    \A j \in 1..Len(jobs) :
        jobs[j].status \in {"FAILED", "CANCELLED"} => jobs[j].error_message # Null

\* C14: in every committed ledger state that submissions, reconciliation
\* passes, update_image_result, the deleted-file check and publish runs reach,
\* an Item SUCCEEDED has a result_file and an Item FAILED has an error_message.
C14_StatusWithItsField ==
    \A i \in 1..Len(items) :
        /\ items[i].status = "SUCCEEDED" => items[i].result_file # Null
        /\ items[i].status = "FAILED" => items[i].error_message # Null

C14_Witness ==
    \E i \in 1..Len(items) :
        /\ items[i].status = "FAILED"
        /\ items[i].result_file # Null
        /\ items[i].title # Null
        /\ jobs[items[i].batch_job_id].status = "SUCCEEDED"
        /\ ppc = "publish"

\* C16: the selection that feeds the deleted-file check and the captioning
\* holds an Item if and only if its status is SUCCEEDED, its result_file is
\* non-null and it is not published; changing any one of the three on a
\* selected Item removes it; rows outside the selection are neither captioned
\* nor marked DELETED.
C16_ReadinessPredicate ==
    [][\A i \in 1..Len(items) :
        LET row == items[i] IN
        /\ (i \in ReadySet) <=>
              (row.status = "SUCCEEDED" /\ row.result_file # Null /\ ~row.published)
        /\ i \in ReadySet =>
              /\ \A st \in ItemStatuses \ {"SUCCEEDED"} :
                    ~Ready([row EXCEPT !.status = st])
              /\ ~Ready([row EXCEPT !.result_file = Null])
              /\ ~Ready([row EXCEPT !.published = TRUE])
        /\ (i <= Len(items') /\
              (\/ <<items'[i].alt, items'[i].title, items'[i].description>>
                     # <<row.alt, row.title, row.description>>
               \/ items'[i].status = "DELETED" /\ row.status # "DELETED")) =>
              (row.status = "SUCCEEDED" /\ row.result_file # Null /\ ~row.published)]_vars

C16_Witness ==
    /\ ppc = "caption"
    /\ \E i \in 1..Len(items) :
        /\ items[i].status = "DELETED"
        /\ items[i].title # Null
        /\ i \in drive

\* C17: a gateway call (upload_image, add_gallery_image) is made only for an
\* Item whose caption fields alt, title and description are all non-null.
C17_PublishOnlyCaptioned ==
    [][\A c \in calls' \ calls :
        /\ items[c[2]].alt # Null
        /\ items[c[2]].title # Null
        /\ items[c[2]].description # Null]_vars

\* C18: in every committed ledger state an Item with published = true has a
\* non-null image_cms_id and a non-null result_file.
C18_PublishedHasIdentifier ==
    \A i \in 1..Len(items) :
        items[i].published =>
            items[i].image_cms_id # Null /\ items[i].result_file # Null

C18_Witness ==
    \E i \in 1..Len(items) :
        /\ items[i].published
        /\ i \notin drive
        /\ pc = "tally"

\* C19: across publish runs, once an Item's image_cms_id is committed
\* upload_image is never called for it again; a later run goes straight to
\* add_gallery_image for it.
C19_UploadOnce ==
    [][\A i \in 1..Len(items) :
        /\ <<"upload_image", i>> \in calls' \ calls => items[i].image_cms_id = Null
        /\ (<<"add_gallery_image", i>> \in calls' \ calls) =>
              items[i].image_cms_id # Null]_vars

C19_Witness ==
    \E i \in 1..Len(items) :
        /\ <<"add_gallery_image", i>> \in calls
        /\ <<"upload_image", i>> \notin calls
        /\ items[i].published

\* C20: an Item's status changes to DELETED only from SUCCEEDED, only while it
\* is unpublished and has a result_file, and only when the staged result is
\* missing from the asset store.
C20_DeletedOnlyWhenMissing ==
    [][\A i \in 1..Len(items) :
        (items'[i].status = "DELETED" /\ items[i].status # "DELETED") =>
            /\ items[i].status = "SUCCEEDED"
            /\ ~items[i].published
            /\ items[i].result_file # Null
            /\ i \notin drive]_vars


\* C23: create_batch_job removes the local manifest file on every outcome of
\* the call: after a call that drew a batch key, failed or not, the manifest
\* file written under that key is gone.
C23_ManifestRemoved ==
    [][nextBatch' # nextBatch => nextBatch' \notin manifests']_vars


\* C22: get_overall_statistics returns, for every ledger state, counts that
\* equal the number of rows holding each status: images_pending is the number
\* of Items whose status is PENDING, the buckets of the Items add up to the
\* Items, and on an empty ledger every count is zero and the grouping is empty.
C22_CountsByStatus ==
    LET stats == GetOverallStatistics
        pending == {i \in 1..Len(items) : items[i].status = "PENDING"}
    IN /\ stats.images_pending = Cardinality(pending)
       /\ stats.jobs_succeeded =
              Cardinality({j \in 1..Len(jobs) : jobs[j].status = "SUCCEEDED"})
       /\ (jobs = <<>> /\ items = <<>>) =>
              /\ stats.total_jobs = 0
              /\ stats.total_images = 0
              /\ stats.images_pending = 0
              /\ DOMAIN stats.errors_grouped = {}


\* C26: once a Job's ledger status is SUCCEEDED and the pass that wrote it has
\* left the Job, no pass with the default filter selects the Job again, and the
\* Items of the Job that were left PENDING stay as they are.
C26_SucceededNotReselected ==
    [][\A j \in 1..Len(jobs) :
          (jobs[j].status = "SUCCEEDED" /\ cur.job # j) =>
              /\ \A k \in 1..Len(queue') : queue'[k] # j
              /\ \A i \in ItemsOf(j) :
                    items[i].status = "PENDING" => items'[i] = items[i]]_vars

\* a later default pass has started and selected nothing, while a SUCCEEDED Job
\* still has a PENDING Item
C26_Witness ==
    /\ pc = "poll"
    /\ result.total_jobs = 0
    /\ \E j \in 1..Len(jobs) :
          /\ jobs[j].status = "SUCCEEDED"
          /\ \E i \in ItemsOf(j) : items[i].status = "PENDING"


\* the statuses of a Job in the ledger's vocabulary
JobStatuses == DefaultStatuses \cup TerminalStatus

\* C24: the status check_job_status stores is one of PENDING, RUNNING,
\* SUCCEEDED, FAILED, CANCELLED, and a Job it leaves with a terminal state of the
\* provider (under either name) has completed_at set.
C24_StatusFromVocabulary ==
    \A j \in 1..Len(jobs) :
        /\ jobs[j].status \in JobStatuses
        /\ jobs[j].status \in TerminalStatus \cup TerminalRemote =>
              jobs[j].completed_at # Null


\* C29: an Item the publish step selected, whose image is uploaded (in this run
\* or an earlier one) and for which no gateway call of the run fails, has
\* published = TRUE when the loop leaves it.
C29_SelectedGetsPublished ==
    [][(ppc = "gallery" /\ ppc' = "publish") =>
          LET i == Head(pqueue)
              galleryFailed == /\ <<"add_gallery_image", i>> \in calls'
                               /\ ~items'[i].published
          IN ~galleryFailed => items'[i].published]_vars


\* the pass is inside the result payload of the job cur.job
ProcessingPayload == pc \in {"lines", "lineTail", "inline", "inlineTail"}

\* the columns only the publish stage writes differ, or the row became DELETED
PublishWrote(old, new) ==
    \/ <<old.alt, old.title, old.description>> # <<new.alt, new.title, new.description>>
    \/ old.image_cms_id # new.image_cms_id
    \/ old.published # new.published
    \/ old.status # "DELETED" /\ new.status = "DELETED"

\* C25: while a reconciliation pass is processing the result payload of a Job,
\* the publish stage neither selects nor writes an Item of that Job.
C25_StagesOnDifferentRows ==
    [][\A i \in 1..Len(items) :
          (ProcessingPayload /\ items[i].batch_job_id = cur.job) =>
              /\ ~PublishWrote(items[i], items'[i])
              /\ (\E k \in 1..Len(pqueue') : pqueue'[k] = i) =>
                    (\E k \in 1..Len(pqueue) : pqueue[k] = i)]_vars


\* C21: at most one invocation is inside the critical section of a stage; an
\* update that arrives while the stage's lock is held is answered "busy" and
\* ends there: it neither runs the stage nor waits for the lock.
C21_OneHandlerPerStage ==
    /\ \A stage \in Stages :
          /\ Cardinality({h \in 1..MaxCommands :
                 commands[h].stage = stage /\ Inside(commands[h])}) <= 1
          /\ Locked(stage) <=>
                 \E h \in 1..MaxCommands :
                     commands[h].stage = stage /\ Inside(commands[h])
    /\ \A h \in 1..MaxCommands :
          /\ commands[h].pos # "waiting"
          /\ commands[h].sent = "busy" => ~Inside(commands[h])

\* a second update of a stage was turned away while the first is inside
C21_Witness ==
    \E h, k \in 1..MaxCommands :
        /\ commands[h].stage = "status" /\ commands[k].stage = "status"
        /\ Inside(commands[h])
        /\ commands[k].sent = "busy"


\* C28: with Jobs submitted through the generation handler only, the ledger
\* never holds more than one Job whose status is PENDING or RUNNING.
C28_OneUnfinishedJob ==
    Cardinality({j \in 1..Len(jobs) : jobs[j].status \in {"PENDING", "RUNNING"}}) <= 1

\* the handler has created a second Job after the first one ended
C28_Witness ==
    /\ Len(jobs) = 2
    /\ jobs[1].status \in TerminalStatus
    /\ jobs[2].status = "PENDING"
    /\ \E h \in 1..MaxCommands : commands[h].sent = "created"


\* C30: when the reconciliation pass and the read of the overall statistics
\* have both returned normally, the status handler ends with the formatted
\* summary as its answer, not with an error message.
C30_SummarySent ==
    [][\A h \in 1..MaxCommands :
          (commands[h].pos = "format" /\ commands'[h].pos # "format") =>
              commands'[h].sent = "summary"]_vars


\* C27: once the provider holds a terminal state for a job (and it keeps it),
\* the default passes that keep being run bring the ledger Job to the matching
\* terminal status, whatever calls raised before.
C27_TerminalReachesLedger ==
    \A j \in 1..MaxJobs : \A state \in TerminalRemote :
        (Len(remote) >= j /\ remote[j] = state)
            ~> (Len(jobs) >= j /\ jobs[j].status = ExpectedStatus(state))

\* the first job has got its terminal status while the call for the second
\* job, which has ended too, raised in this pass
C27_Witness ==
    /\ Len(jobs) = 2
    /\ remote[1] \in TerminalRemote
    /\ jobs[1].status = ExpectedStatus(remote[1])
    /\ remote[2] \in TerminalRemote
    /\ jobs[2].status \in DefaultStatuses
    /\ pc = "tally" /\ cur.job = 2 /\ cur.raised

====
